---------------------------- MODULE Spec2Model ----------------------------
(***************************************************************************)
(* Model of the karriere.at crawl pipeline: karriere_scraper.py            *)
(* (scrape_karriere, _build_driver, _collect_job_links_on_page,            *)
(* _extract_job, _visible_text, _search_url, _accept_cookies_if_present).  *)
(*                                                                         *)
(* Python values are tagged records: None is [t |-> "none"], a str is      *)
(* [t |-> "str", v |-> <<chars>>] and any other truthy non-str JSON value  *)
(* (a number, say) is [t |-> "num"].  A str is a sequence of one-symbol    *)
(* strings; in URLs the path segment "/jobs/" is one symbol.               *)
(***************************************************************************)
EXTENDS Integers, Sequences, FiniteSets, TLC

(* ------------------------------ bounds -------------------------------- *)
MaxPages == 2          \* page_limit ranges over 1..MaxPages
MaxJobsLimit == 2      \* max_jobs ranges over None and 1..MaxJobsLimit
MaxAnchors == 2        \* anchors found on one listing page (crawl)
MaxAnchorsPure == 3    \* anchors on the page given to the link collector alone
MaxScripts == 2        \* ld+json script blocks on one detail page
MaxDoc == 2            \* elements of a detail page seen by one heuristic lookup
MaxText == 5           \* length of the text given to _visible_text alone

(* --------------------------- Python values ---------------------------- *)
None == [t |-> "none"]
Num == [t |-> "num"]
Str(s) == [t |-> "str", v |-> s]
IsStr(x) == x.t = "str"

\* Python truthiness of a value: None, "" and [] are falsy
Truthy(x) == IF x.t \in {"str", "list"} THEN x.v # <<>> ELSE x.t # "none"

\* Python `a or b`
Or(a, b) == IF Truthy(a) THEN a ELSE b

(* ------------------------- _visible_text ------------------------------ *)
Whitespace == {" ", "\n"}

RECURSIVE CollapsePairs(_)
\* a replacement that joins whitespace two by two only
CollapsePairs(s) ==
    IF s = <<>> THEN <<>>
    ELSE IF Head(s) \in Whitespace
         THEN IF Len(s) > 1 /\ s[2] \in Whitespace
              THEN <<" ">> \o CollapsePairs(Tail(Tail(s)))
              ELSE <<" ">> \o CollapsePairs(Tail(s))
         ELSE <<Head(s)>> \o CollapsePairs(Tail(s))

RECURSIVE Collapse(_)
\* re.sub(r"\s+", " ", s): every maximal run of whitespace becomes one space
Collapse(s) ==
    IF s = <<>> THEN <<>>
    ELSE IF Head(s) \in Whitespace
         THEN IF Len(s) > 1 /\ s[2] \in Whitespace
              THEN Collapse(Tail(s))
              ELSE <<" ">> \o Collapse(Tail(s))
         ELSE <<Head(s)>> \o Collapse(Tail(s))

RECURSIVE LStrip(_)
LStrip(s) == IF s # <<>> /\ Head(s) \in Whitespace THEN LStrip(Tail(s)) ELSE s

RECURSIVE RStrip(_)
RStrip(s) ==
    IF s # <<>> /\ s[Len(s)] \in Whitespace
    THEN RStrip(SubSeq(s, 1, Len(s) - 1)) ELSE s

\* str.strip()
Strip(s) == RStrip(LStrip(s))

\* _visible_text(s) on a str-or-None value: (s or "") collapsed and stripped
VisibleText(x) == Str(Strip(Collapse(IF Truthy(x) /\ IsStr(x) THEN x.v ELSE <<>>)))

(* ------------------------------ URLs ---------------------------------- *)
BASE_URL == <<"https://www.karriere.at", "/jobs">>
Digits == {"7", "8"}
\* the query of app.py's example: field 'IT, EDV', region 'Wien'
Fields == {<<"I", "T", ",", " ", "E", "D", "V">>}
Regions == {<<"W", "i", "e", "n">>}

RECURSIVE Quote(_)
\* urllib.parse.quote: reserved and unsafe characters are percent-encoded
Quote(s) ==
    IF s = <<>> THEN <<>>
    ELSE (CASE Head(s) = " " -> <<"%20">>
            [] Head(s) = "," -> <<"%2C">>
            [] Head(s) = "?" -> <<"%3F">>
            [] Head(s) = "#" -> <<"%23">>
            [] OTHER -> <<Head(s)>>) \o Quote(Tail(s))

\* _search_url(field, region, page)
SearchUrl(field, region, page) ==
    LET url == BASE_URL \o <<"/">> \o Quote(field) \o <<"/">> \o Quote(region)
    IN  IF page > 1 THEN Str(url \o <<"?page=", ToString(page)>>) ELSE Str(url)

\* re.search(r"/jobs/\d+(?:[/?#].*)?$", href)
IsDetailHref(h) ==
    \E i \in 1..Len(h) :
        /\ h[i] = "/jobs/"
        /\ \E j \in (i + 1)..Len(h) :
              /\ \A k \in (i + 1)..j : h[k] \in Digits
              /\ \/ j = Len(h)
                 \/ h[j + 1] \in {"/", "?", "#"}

RECURSIVE CollectLoop(_, _, _)
\* the for loop of _collect_job_links_on_page over the remaining anchors
CollectLoop(anchors, links, seen) ==
    IF anchors = <<>> THEN links
    ELSE LET href == Head(anchors)
         IN  IF ~Truthy(href)
             THEN CollectLoop(Tail(anchors), links, seen)
             ELSE IF IsDetailHref(href.v) /\ href \notin seen
                  THEN CollectLoop(Tail(anchors), Append(links, href),
                                   seen \cup {href})
                  ELSE CollectLoop(Tail(anchors), links, seen)

\* _collect_job_links_on_page(driver): anchors are the href attributes, in
\* document order, of the elements find_elements returns for
\* a[href*="/jobs/"] (None when get_attribute yields nothing)
CollectJobLinksOnPage(anchors) == CollectLoop(anchors, <<>>, {})

(* ------------------- _extract_job: structured data --------------------- *)
\* the five locals of _extract_job
NoFields ==
    [title |-> None, org |-> None, location |-> None,
     description |-> None, posted_at |-> None]

Dict(type, graph, title, datePosted, hiringOrganization, jobLocation, description) ==
    [t |-> "dict", type |-> type, graph |-> graph, title |-> title,
     datePosted |-> datePosted, hiringOrganization |-> hiringOrganization,
     jobLocation |-> jobLocation, description |-> description]
List(items) == [t |-> "list", v |-> items]
Org(name) == [t |-> "dict", name |-> name]
Address(locality, region) ==
    [t |-> "dict", addressLocality |-> locality, addressRegion |-> region]
Loc(address) == [t |-> "dict", address |-> address]

\* html.unescape: the entities &lt; and &gt; (one symbol each) are decoded
Unescape(s) ==
    [i \in 1..Len(s) |->
        CASE s[i] = "&lt;" -> "<" [] s[i] = "&gt;" -> ">" [] OTHER -> s[i]]

\* position of the first ">" of s at or after index i, 0 if there is none
RECURSIVE FirstGt(_, _)
FirstGt(s, i) ==
    IF i > Len(s) THEN 0 ELSE IF s[i] = ">" THEN i ELSE FirstGt(s, i + 1)

RECURSIVE StripTags(_)
\* re.sub(r"<[^>]+>", " ", s)
StripTags(s) ==
    IF s = <<>> THEN <<>>
    ELSE IF Head(s) = "<" /\ FirstGt(s, 2) > 2
         THEN <<" ">> \o StripTags(SubSeq(s, FirstGt(s, 2) + 1, Len(s)))
         ELSE <<Head(s)>> \o StripTags(Tail(s))

\* lines 110-115: a JobPosting member of @graph replaces the item
GraphSubst(item) ==
    IF item.graph.t = "list"
       /\ \E i \in 1..Len(item.graph.v) :
             item.graph.v[i].t = "dict" /\ item.graph.v[i].type = "JobPosting"
    THEN LET i == CHOOSE k \in 1..Len(item.graph.v) :
                     /\ item.graph.v[k].t = "dict"
                     /\ item.graph.v[k].type = "JobPosting"
                     /\ \A m \in 1..(k - 1) :
                           ~(item.graph.v[m].t = "dict"
                             /\ item.graph.v[m].type = "JobPosting")
         IN  item.graph.v[i]
    ELSE item

\* lines 133-135 raise (TypeError) when description is truthy and no str
PopulateRaises(item) ==
    Truthy(item.description) /\ ~IsStr(item.description)

\* lines 117-135: the locals after the JobPosting item was read; when line
\* 135 raises, the assignments of lines 117-131 have already happened
Populate(f, item) ==
    LET org_obj == Or(item.hiringOrganization, Org(None))
        loc0 == Or(item.jobLocation, Loc(None))
        loc_obj == IF loc0.t = "list" /\ loc0.v # <<>> THEN loc0.v[1] ELSE loc0
        addr == IF loc_obj.t = "dict"
                THEN Or(loc_obj.address, Address(None, None)) ELSE None
    IN  [title |-> Or(item.title, f.title),
         posted_at |-> Or(item.datePosted, f.posted_at),
         org |-> IF org_obj.t = "dict" THEN Or(org_obj.name, f.org) ELSE f.org,
         location |-> IF addr.t = "dict"
                      THEN Or(Or(addr.addressLocality, addr.addressRegion),
                              f.location)
                      ELSE f.location,
         description |-> IF Truthy(item.description) /\ IsStr(item.description)
                         THEN VisibleText(Str(StripTags(Unescape(item.description.v))))
                         ELSE f.description]

RECURSIVE CandidatesLoop(_, _)
\* lines 106-136: the first JobPosting among the candidates is read, then break
CandidatesLoop(f, candidates) ==
    IF candidates = <<>> THEN f
    ELSE LET item == Head(candidates)
         IN  IF item.t # "dict"
             THEN CandidatesLoop(f, Tail(candidates))
             ELSE IF GraphSubst(item).type = "JobPosting"
                  THEN Populate(f, GraphSubst(item))
                  ELSE CandidatesLoop(f, Tail(candidates))

\* lines 98-138: one iteration of `for s in scripts`.  A block is
\* [t |-> "empty"] (no text), [t |-> "malformed"] (json.loads raises) or
\* [t |-> "json", data |-> value]
Phase1Block(f, block) ==
    IF block.t = "json"
    THEN CandidatesLoop(f, IF block.data.t = "list" THEN block.data.v
                           ELSE <<block.data>>)
    ELSE f

RECURSIVE CandidatesOutcome(_)
\* lines 106-136: how the candidates loop of one block ends: no JobPosting
\* among the candidates, one read up to the break, or an exception on the way
CandidatesOutcome(candidates) ==
    IF candidates = <<>> THEN "skipped"
    ELSE LET item == Head(candidates)
         IN  IF item.t # "dict"
             THEN CandidatesOutcome(Tail(candidates))
             ELSE IF GraphSubst(item).type = "JobPosting"
                  THEN IF PopulateRaises(GraphSubst(item)) THEN "raised"
                       ELSE "posting"
                  ELSE CandidatesOutcome(Tail(candidates))

\* lines 98-138: how one iteration of `for s in scripts` ends; json.loads
\* raises on a malformed block and line 138 catches it
Phase1BlockOutcome(block) ==
    CASE block.t = "malformed" -> "raised"
      [] block.t = "empty" -> "skipped"
      [] OTHER -> CandidatesOutcome(IF block.data.t = "list" THEN block.data.v
                                    ELSE <<block.data>>)

RECURSIVE Phase1(_, _)
\* lines 96-138: the whole scan; no break leaves the outer loop
Phase1(f, scripts) ==
    IF scripts = <<>> THEN f
    ELSE Phase1(Phase1Block(f, Head(scripts)), Tail(scripts))

(* ------------------- _extract_job: heuristic fallback ------------------ *)
\* the selector lists of lines 142-158, in the order written
SelTitle == <<"h1", "[data-qa=job-title]", "h1[class*=title]">>
SelOrg == <<"[data-qa=company-name]", "a[href*=/firmen/]", ".job-company",
            "[itemprop=hiringOrganization]">>
SelLocation == <<"[data-qa=job-location]", ".job-location",
                 "[itemprop=addressLocality]", "[data-qa=locations]">>
SelDescription == <<"[data-qa=job-description]", "article", ".job-description",
                    "[itemprop=description]">>
SelPosted == <<"time[datetime]", "[data-qa=job-posted]", ".posted-date">>

Range(s) == {s[i] : i \in 1..Len(s)}

\* an element of the detail page: the selector it matches, its text and
\* its datetime attribute
Element(sel, text, datetime) == [sel |-> sel, text |-> text, datetime |-> datetime]

\* driver.find_elements(By.CSS_SELECTOR, "s1, s2, ..."): the elements that
\* match any selector of the group, in document order
FindElements(doc, sels) == SelectSeq(doc, LAMBDA e : e.sel \in Range(sels))

\* the fallback without its `if not x` guard
FallbackTextAlways(cur, els) ==
    IF els # <<>> THEN VisibleText(els[1].text) ELSE cur

\* the fallback keeping a field absent when the element's text is empty
FallbackTextNonEmpty(cur, els) ==
    IF ~Truthy(cur) /\ els # <<>> /\ Truthy(VisibleText(els[1].text))
    THEN VisibleText(els[1].text) ELSE cur

\* lines 141-155: `if not x: els = ...; if els: x = _visible_text(els[0].text)`
FallbackText(cur, els) ==
    IF ~Truthy(cur) /\ els # <<>> THEN VisibleText(els[1].text) ELSE cur

\* lines 157-160
FallbackPosted(cur, els) ==
    IF ~Truthy(cur) /\ els # <<>>
    THEN Str(Strip(Or(Or(els[1].datetime, els[1].text), Str(<<>>)).v))
    ELSE cur

\* the record with link taken from a field instead of url
JobRecordNoLink(f, url) ==
    [title |-> f.title, company |-> f.org, location |-> f.location,
     posted_at |-> f.posted_at, link |-> f.posted_at, description |-> f.description]

\* lines 162-169
JobRecord(f, url) ==
    [title |-> f.title, company |-> f.org, location |-> f.location,
     posted_at |-> f.posted_at, link |-> url, description |-> f.description]

\* lines 140-160 on a page whose lookups all succeed
Phase2(f, doc) ==
    [title |-> FallbackText(f.title, FindElements(doc, SelTitle)),
     org |-> FallbackText(f.org, FindElements(doc, SelOrg)),
     location |-> FallbackText(f.location, FindElements(doc, SelLocation)),
     description |-> FallbackText(f.description, FindElements(doc, SelDescription)),
     posted_at |-> FallbackPosted(f.posted_at, FindElements(doc, SelPosted))]

\* _extract_job(driver, url) for a detail page that loads:
\* page = [scripts |-> <<blocks>>, doc |-> <<elements>>]
ExtractJob(page, url) == JobRecord(Phase2(Phase1(NoFields, page.scripts), page.doc), url)

(* ---------------------- _accept_cookies_if_present --------------------- *)
\* the strategies in the order tried: the OneTrust id, then the texts
ConsentStrategies ==
    <<"#onetrust-accept-btn-handler", "Akzeptieren", "Zustimmen",
      "Alle akzeptieren", "Accept", "I agree">>

OneTrustId == ConsentStrategies[1]
ConsentTexts == Tail(ConsentStrategies)

\* what one strategy's try block meets: the wait for a clickable button
\* times out ("absent"), the click raises ("click_fails"), or the button
\* is clicked ("clicked")
StrategyOutcomes == {"absent", "click_fails", "clicked"}

\* a handler written for the timeout of the wait only
SwallowedTimeoutOnly(o) == o = "absent"

\* lines 48 and 59: `except Exception` catches whatever the try block raised
Swallowed(o) == o \in {"absent", "click_fails"}

RECURSIVE TextLoop(_, _)
\* lines 51-60: the loop over the button texts; return on the first click
TextLoop(texts, outcome) ==
    IF texts = <<>> THEN [clicks |-> <<>>, raised |-> FALSE]
    ELSE IF outcome[Head(texts)] = "clicked"
         THEN [clicks |-> <<Head(texts)>>, raised |-> FALSE]
         ELSE IF Swallowed(outcome[Head(texts)])
              THEN TextLoop(Tail(texts), outcome)
              ELSE [clicks |-> <<>>, raised |-> TRUE]

\* _accept_cookies_if_present(driver): outcome gives, for each strategy,
\* what its try block meets.  The result is the buttons clicked and
\* whether an exception left the function
AcceptCookiesIfPresent(outcome) ==
    IF outcome[OneTrustId] = "clicked"
    THEN [clicks |-> <<OneTrustId>>, raised |-> FALSE]
    ELSE IF Swallowed(outcome[OneTrustId])
         THEN TextLoop(ConsentTexts, outcome)
         ELSE [clicks |-> <<>>, raised |-> TRUE]

(* ------------------------- the site, bounded --------------------------- *)
J7 == Str(<<"https://www.karriere.at", "/jobs/", "7">>)
J8 == Str(<<"https://www.karriere.at", "/jobs/", "8">>)
J7Frag == Str(<<"https://www.karriere.at", "/jobs/", "7", "#", "a">>)
J78Query == Str(<<"https://www.karriere.at", "/jobs/", "7", "8", "?", "a">>)
J7a == Str(<<"https://www.karriere.at", "/jobs/", "7", "a">>)
JWien == Str(<<"https://www.karriere.at", "/jobs/", "a">>)

\* href attributes of the anchors of a listing page during a crawl
CrawlHrefs == {J7, J8, JWien, None}
\* href attributes given to the link collector alone
PureHrefs == {J7, J8, J7Frag, J78Query, J7a, JWien, None, Str(<<>>)}

SeqsUpTo(S, n) == UNION {[1..k -> S] : k \in 0..n}

TextA == Str(<<" ", "a", "\n", " ", "b">>)
TextB == Str(<<"b">>)
HtmlC == Str(<<"<", "p", ">", "c", "&lt;", "b", "&gt;">>)
Posting(title, description) ==
    Dict("JobPosting", None, title, None, None, None, description)

\* detail pages met during a crawl: one with a JobPosting block and
\* conflicting markup, one with markup only
PageLd ==
    [scripts |-> <<[t |-> "json", data |-> Posting(TextB, HtmlC)]>>,
     doc |-> <<Element("h1", TextA, None)>>]
PageBare ==
    [scripts |-> <<>>,
     doc |-> <<Element("h1", TextA, None), Element(".job-company", TextB, None)>>]
CrawlPages == {PageLd, PageBare}

(* ------------------------------ the state ------------------------------ *)
VARIABLES
    frame,      \* per invocation of scrape_karriere: its arguments, locals,
                \* position (pc) and the exception in flight
    session,    \* every rendering session launched so far, by handle
    log,        \* per invocation: what it has done to the outside so far
    lc,         \* a call of _collect_job_links_on_page on its own
    xj,         \* a call of _extract_job on its own, step by step
    helper      \* a call of one of the small helpers on its own

vars == <<frame, session, log, lc, xj, helper>>

NoExc == [kind |-> "none", at |-> "none"]
Exc(kind, at) == [kind |-> kind, at |-> at]

\* the frame of scrape_karriere(field, region, page_limit, max_jobs) on
\* entry; max_jobs = 0 stands for None (both are falsy at lines 196, 198)
NewFrame(field, region, page_limit, max_jobs) ==
    [field |-> field, region |-> region, page_limit |-> page_limit,
     max_jobs |-> max_jobs, pc |-> "launch", driver |-> 0, jobs |-> <<>>,
     page |-> 0, links |-> <<>>, idx |-> 0, exc |-> NoExc, result |-> None]

NewLog ==
    [listingNavs |-> <<>>, extractCalls |-> 0, lastOutcome |-> "none",
     consentRuns |-> 0, launched |-> 0, extracted |-> <<>>, order |-> <<>>]

Queries ==
    {NewFrame(f, r, n, m) :
        f \in Fields, r \in Regions, n \in 1..MaxPages, m \in 0..MaxJobsLimit}

NoCall == [pc |-> "idle"]

Init ==
    /\ frame \in [{1} -> Queries]
    /\ session = <<>>
    /\ log = [c \in {1} |-> NewLog]
    /\ lc = NoCall
    /\ xj = NoCall
    /\ helper = NoCall

Set(c, f) == frame' = [frame EXCEPT ![c] = f]
Raise(c, kind, at) ==
    [frame[c] EXCEPT !.pc = IF frame[c].pc \in {"launch", "set_timeout"}
                            THEN "raised" ELSE "finally",
                     !.exc = Exc(kind, at)]

\* the limit test with > for >=
ReachedMaxOffByOne(max_jobs, jobs) == max_jobs # 0 /\ Len(jobs) > max_jobs

\* lines 196 and 198: `max_jobs and len(jobs) >= max_jobs`
ReachedMax(max_jobs, jobs) == max_jobs # 0 /\ Len(jobs) >= max_jobs

\* the loop test admitting one page more
WhileCondOneMore(page, page_limit) == page <= page_limit + 1

\* line 186: `while page <= page_limit`
WhileCond(page, page_limit) == page <= page_limit

\* one browser kept for all invocations: a session already launched is
\* handed out again
LaunchShared(sess, c) ==
    IF sess # <<>> THEN [sessions |-> sess, handle |-> 1]
    ELSE [sessions |-> <<[state |-> "open", quits |-> 0, owner |-> c, users |-> {}]>>,
          handle |-> 1]

\* line 26: webdriver.Chrome(options=opts) starts a browser of its own and
\* gives the handle of this new session
LaunchSession(sess, c) ==
    [sessions |-> Append(sess, [state |-> "open", quits |-> 0, owner |-> c,
                                users |-> {}]),
     handle |-> Len(sess) + 1]

\* a call on the session bound to `driver` of invocation c
Use(c) == session' = [session EXCEPT ![frame[c].driver].users = @ \cup {c}]

\* line 26: webdriver.Chrome(options=opts) launches a session or raises
Launch(c) ==
    /\ frame[c].pc = "launch"
    /\ \/ /\ session' = LaunchSession(session, c).sessions
          /\ log' = [log EXCEPT ![c].launched = LaunchSession(session, c).handle]
          /\ Set(c, [frame[c] EXCEPT !.pc = "set_timeout"])
       \/ /\ Set(c, Raise(c, "Error", "launch"))
          /\ UNCHANGED <<session, log>>
    /\ UNCHANGED <<lc, xj, helper>>

\* lines 27-28 and 178-179: set_page_load_timeout returns and the handle is
\* bound to `driver`, or it raises before the try block is entered
SetPageLoadTimeout(c) ==
    /\ frame[c].pc = "set_timeout"
    /\ \/ Set(c, [frame[c] EXCEPT !.pc = "first_nav", !.driver = log[c].launched])
       \/ Set(c, Raise(c, "Error", "set_timeout"))
    /\ UNCHANGED <<session, log, lc, xj, helper>>

\* line 181: driver.get(_search_url(field, region, page=1))
FirstNav(c) ==
    /\ frame[c].pc = "first_nav"
    /\ log' = [log EXCEPT
                  ![c].listingNavs =
                      Append(@, SearchUrl(frame[c].field, frame[c].region, 1)),
                  ![c].order = Append(@, "nav")]
    /\ \/ Set(c, [frame[c] EXCEPT !.pc = "consent"])
       \/ \E kind \in {"Timeout", "Error"} : Set(c, Raise(c, kind, "first_nav"))
    /\ Use(c)
    /\ UNCHANGED <<lc, xj, helper>>

\* overlays met during a crawl: none, the OneTrust button, a text button
\* after a failing click
CrawlOverlays ==
    {[x \in Range(ConsentStrategies) |-> "absent"],
     [x \in Range(ConsentStrategies) |->
         IF x \in {OneTrustId, "Accept"} THEN "clicked" ELSE "absent"],
     [x \in Range(ConsentStrategies) |->
         IF x = "Zustimmen" THEN "click_fails"
         ELSE IF x = "I agree" THEN "clicked" ELSE "absent"]}

\* line 182: _accept_cookies_if_present(driver)
Consent(c) ==
    /\ frame[c].pc = "consent"
    /\ log' = [log EXCEPT ![c].consentRuns = @ + 1,
                          ![c].order = Append(@, "consent")]
    /\ \E outcome \in CrawlOverlays :
          IF AcceptCookiesIfPresent(outcome).raised
          THEN Set(c, Raise(c, "Error", "consent"))
          ELSE Set(c, [frame[c] EXCEPT !.pc = "first_wait"])
    /\ Use(c)
    /\ UNCHANGED <<lc, xj, helper>>

\* lines 183-185: _wait_css(driver, "body"); page = 1
FirstWait(c) ==
    /\ frame[c].pc = "first_wait"
    /\ \/ Set(c, [frame[c] EXCEPT !.pc = "while", !.page = 1])
       \/ Set(c, Raise(c, "Timeout", "first_wait"))
    /\ log' = [log EXCEPT ![c].order = Append(@, "wait")]
    /\ Use(c)
    /\ UNCHANGED <<lc, xj, helper>>

\* line 186-187: while page <= page_limit; if page > 1
While(c) ==
    /\ frame[c].pc = "while"
    /\ Set(c, [frame[c] EXCEPT !.pc =
                  IF WhileCond(frame[c].page, frame[c].page_limit)
                  THEN IF frame[c].page > 1 THEN "page_nav" ELSE "collect"
                  ELSE "return"])
    /\ UNCHANGED <<session, log, lc, xj, helper>>

\* lines 188-189: driver.get(_search_url(..., page=page)); _wait_css
PageNav(c) ==
    /\ frame[c].pc = "page_nav"
    /\ log' = [log EXCEPT ![c].listingNavs =
                  Append(@, SearchUrl(frame[c].field, frame[c].region, frame[c].page))]
    /\ \/ Set(c, [frame[c] EXCEPT !.pc = "collect"])
       \/ \E kind \in {"Timeout", "Error"} : Set(c, Raise(c, kind, "page_nav"))
    /\ Use(c)
    /\ UNCHANGED <<lc, xj, helper>>

\* line 191: links = _collect_job_links_on_page(driver); a lookup on the
\* listing page may raise (stale element, lost session)
Collect(c) ==
    /\ frame[c].pc = "collect"
    /\ \/ \E anchors \in SeqsUpTo(CrawlHrefs, MaxAnchors) :
             Set(c, [frame[c] EXCEPT !.pc = "for", !.idx = 1,
                                     !.links = CollectJobLinksOnPage(anchors)])
       \/ Set(c, Raise(c, "Error", "collect"))
    /\ log' = [log EXCEPT ![c].order =
                  IF frame[c].page = 1 THEN Append(@, "collect") ELSE @]
    /\ Use(c)
    /\ UNCHANGED <<lc, xj, helper>>

\* the ways the driver calls of one _extract_job can go: the navigation or
\* the readiness wait times out, some call raises another exception, or
\* the page loads
TimedOut == [kind |-> "Timeout"]
Failed == [kind |-> "Error"]
Loaded(page) == [kind |-> "ok", page |-> page]

\* _extract_job without its except clause: a timeout leaves it as any
\* other exception does
ExtractJobOutcomeNoCatch(outcome, url) ==
    CASE outcome.kind \in {"Timeout", "Error"} -> [raised |-> TRUE, job |-> None]
      [] OTHER -> [raised |-> FALSE, job |-> ExtractJob(outcome.page, url)]

\* _extract_job(driver, url): a TimeoutException is caught (line 170) and
\* None returned, any other exception leaves _extract_job, a loaded page
\* gives a record
ExtractJobOutcome(outcome, url) ==
    CASE outcome.kind = "Timeout" -> [raised |-> FALSE, job |-> None]
      [] outcome.kind = "Error" -> [raised |-> TRUE, job |-> None]
      [] OTHER -> [raised |-> FALSE, job |-> ExtractJob(outcome.page, url)]

\* a list that grows at its front
PrependJob(jobs, job) == <<job>> \o jobs

\* line 195: jobs.append(job)
AppendJob(jobs, job) == Append(jobs, job)

\* lines 192-197: one iteration of `for link in links`, or its exhaustion
ForLink(c) ==
    /\ frame[c].pc = "for"
    /\ IF frame[c].idx > Len(frame[c].links)
       THEN /\ Set(c, [frame[c] EXCEPT !.pc = "after_for"])
            /\ UNCHANGED <<log, session>>
       ELSE \E outcome \in {TimedOut, Failed} \cup {Loaded(p) : p \in CrawlPages} :
              LET link == frame[c].links[frame[c].idx]
                  r == ExtractJobOutcome(outcome, link)
                  jobs1 == IF r.job # None THEN AppendJob(frame[c].jobs, r.job)
                           ELSE frame[c].jobs
              IN  /\ log' = [log EXCEPT
                        ![c].extractCalls = @ + 1,
                        ![c].lastOutcome = outcome.kind,
                        ![c].extracted =
                            IF r.job # None
                            THEN Append(@, [page |-> frame[c].page,
                                            idx |-> frame[c].idx, link |-> link])
                            ELSE @]
                  /\ IF r.raised
                     THEN Set(c, Raise(c, "Error", "detail"))
                     ELSE Set(c, [frame[c] EXCEPT
                             !.jobs = jobs1,
                             !.idx = @ + 1,
                             !.pc = IF r.job # None
                                       /\ ReachedMax(frame[c].max_jobs, jobs1)
                                    THEN "after_for" ELSE "for"])
                  /\ Use(c)
    /\ UNCHANGED <<lc, xj, helper>>

\* lines 198-200
AfterFor(c) ==
    /\ frame[c].pc = "after_for"
    /\ IF ReachedMax(frame[c].max_jobs, frame[c].jobs)
       THEN Set(c, [frame[c] EXCEPT !.pc = "return"])
       ELSE Set(c, [frame[c] EXCEPT !.pc = "while", !.page = @ + 1])
    /\ UNCHANGED <<session, log, lc, xj, helper>>

\* lines 202-208 (meta.ts is the clock's value and is left out)
Return(c) ==
    /\ frame[c].pc = "return"
    /\ Set(c, [frame[c] EXCEPT !.pc = "finally",
                  !.result = [field |-> frame[c].field, region |-> frame[c].region,
                              count |-> Len(frame[c].jobs), jobs |-> frame[c].jobs]])
    /\ UNCHANGED <<session, log, lc, xj, helper>>

\* lines 209-213: driver.quit(), whose own failure is swallowed; then the
\* function returns or the exception in flight goes on to the caller
Finally(c) ==
    /\ frame[c].pc = "finally"
    /\ \E quitOk \in BOOLEAN :
          session' = [session EXCEPT
                         ![frame[c].driver].users = @ \cup {c},
                         ![frame[c].driver].quits = @ + 1,
                         ![frame[c].driver].state = IF quitOk THEN "closed" ELSE "broken"]
    /\ Set(c, [frame[c] EXCEPT !.pc = IF frame[c].exc = NoExc THEN "done" ELSE "raised"])
    /\ UNCHANGED <<log, lc, xj, helper>>

Next ==
    \/ \E c \in DOMAIN frame : Launch(c)
    \/ \E c \in DOMAIN frame : SetPageLoadTimeout(c)
    \/ \E c \in DOMAIN frame : FirstNav(c)
    \/ \E c \in DOMAIN frame : Consent(c)
    \/ \E c \in DOMAIN frame : FirstWait(c)
    \/ \E c \in DOMAIN frame : While(c)
    \/ \E c \in DOMAIN frame : PageNav(c)
    \/ \E c \in DOMAIN frame : Collect(c)
    \/ \E c \in DOMAIN frame : ForLink(c)
    \/ \E c \in DOMAIN frame : AfterFor(c)
    \/ \E c \in DOMAIN frame : Return(c)
    \/ \E c \in DOMAIN frame : Finally(c)

Spec == Init /\ [][Next]_vars

\* every navigation and presence-wait returns or times out, and every other
\* statement completes: a crawl that can take a step eventually takes one
SpecFair == Spec /\ WF_vars(Next)

(* ----------------------- concurrent invocations ------------------------ *)
\* two invocations running at once, as two requests of app.py make them:
\* one with two pages and max_jobs = 1, one with one page and no limit
InitConc ==
    /\ frame \in {<<NewFrame(f, r, 2, 1), NewFrame(f, r, 1, 0)>> :
                     f \in Fields, r \in Regions}
    /\ session = <<>>
    /\ log = [c \in {1, 2} |-> NewLog]
    /\ lc = NoCall
    /\ xj = NoCall
    /\ helper = NoCall

SpecConc == InitConc /\ [][Next]_vars

(* --------------- _collect_job_links_on_page on its own ----------------- *)
InitLinks ==
    /\ frame = <<>>
    /\ session = <<>>
    /\ log = <<>>
    /\ xj = NoCall
    /\ helper = NoCall
    /\ lc \in {[pc |-> "call", anchors |-> a, links |-> <<>>] :
                  a \in SeqsUpTo(PureHrefs, MaxAnchorsPure)}

CollectCall ==
    /\ lc.pc = "call"
    /\ lc' = [lc EXCEPT !.pc = "returned",
                        !.links = CollectJobLinksOnPage(lc.anchors)]
    /\ UNCHANGED <<frame, session, log, xj, helper>>

NextLinks == CollectCall

SpecLinks == InitLinks /\ [][NextLinks]_vars

(* ----------------------- _visible_text on its own ---------------------- *)
TextChars == {" ", "\n", "a"}

InitText ==
    /\ frame = <<>>
    /\ session = <<>>
    /\ log = <<>>
    /\ lc = NoCall
    /\ xj = NoCall
    /\ helper \in {[pc |-> "call", s |-> x, once |-> None, twice |-> None] :
                      x \in {None} \cup {Str(t) : t \in SeqsUpTo(TextChars, MaxText)}}

\* _visible_text(s)
NormalizeOnce ==
    /\ helper.pc = "call"
    /\ helper' = [helper EXCEPT !.pc = "once", !.once = VisibleText(helper.s)]
    /\ UNCHANGED <<frame, session, log, lc, xj>>

\* _visible_text applied to its own result
NormalizeTwice ==
    /\ helper.pc = "once"
    /\ helper' = [helper EXCEPT !.pc = "twice", !.twice = VisibleText(helper.once)]
    /\ UNCHANGED <<frame, session, log, lc, xj>>

NextText == NormalizeOnce \/ NormalizeTwice

SpecText == InitText /\ [][NextText]_vars

(* ---------------- _accept_cookies_if_present on its own ---------------- *)
InitConsent ==
    /\ frame = <<>>
    /\ session = <<>>
    /\ log = <<>>
    /\ lc = NoCall
    /\ xj = NoCall
    /\ helper \in {[pc |-> "call", outcome |-> o, clicks |-> <<>>, raised |-> FALSE] :
                      o \in [Range(ConsentStrategies) -> StrategyOutcomes]}

ConsentCall ==
    /\ helper.pc = "call"
    /\ helper' = [helper EXCEPT
                     !.pc = "returned",
                     !.clicks = AcceptCookiesIfPresent(helper.outcome).clicks,
                     !.raised = AcceptCookiesIfPresent(helper.outcome).raised]
    /\ UNCHANGED <<frame, session, log, lc, xj>>

NextConsent == ConsentCall

SpecConsent == InitConsent /\ [][NextConsent]_vars

(* ----------------------- _extract_job on its own ----------------------- *)
TextC == Str(<<"c">>)
TextD == Str(<<"2", "0", "2", "5">>)
Blank == Str(<<" ">>)
HtmlEmpty == Str(<<"<", "p", ">">>)

\* values a JobPosting object may carry under each key
TitleVals == {None, Str(<<>>), TextB, TextC}
DateVals == {None, TextD}
OrgVals == {None, Num, Org(None), Org(TextB)}
LocVals ==
    {None, Num, Loc(Num), Loc(Address(TextB, TextC)), Loc(Address(None, TextC)),
     List(<<Loc(Address(TextC, None)), Loc(Address(TextB, None))>>)}
DescVals == {None, Num, HtmlC, HtmlEmpty}

Postings ==
    {Dict("JobPosting", None, ti, da, og, lo, de) :
        ti \in TitleVals, da \in DateVals, og \in OrgVals, lo \in LocVals,
        de \in DescVals}
Other == Dict("Organization", None, TextB, None, None, None, None)

\* the script blocks of a detail page: without text, malformed, a scalar,
\* one object, an object wrapping a @graph, or a list of objects
Blocks ==
    {[t |-> "empty"], [t |-> "malformed"], [t |-> "json", data |-> Num],
     [t |-> "json", data |-> Other]}
    \cup {[t |-> "json", data |-> p] : p \in Postings}
    \cup {[t |-> "json",
           data |-> Dict("WebPage", List(<<Num, Other, p>>), TextB, None, None,
                         None, None)] : p \in Postings}
    \cup {[t |-> "json", data |-> List(<<Num, Other, p, Posting(TextB, HtmlC)>>)] :
             p \in Postings}

FieldOrder == <<"title", "org", "location", "description", "posted_at">>

\* the selector group of each fallback lookup
SelOf(field) ==
    CASE field = "title" -> SelTitle
      [] field = "org" -> SelOrg
      [] field = "location" -> SelLocation
      [] field = "description" -> SelDescription
      [] field = "posted_at" -> SelPosted

\* elements a detail page may hold as far as the lookup of one field sees:
\* they match the first or the last selector of the group, or none of it
ElementsFor(field) ==
    {Element(sel, text, None) :
        sel \in {SelOf(field)[1], SelOf(field)[Len(SelOf(field))]},
        text \in {TextA, Blank}}
    \cup {Element("div", TextA, None)}
    \cup (IF field = "posted_at"
          THEN {Element(sel, TextA, TextD) :
                   sel \in {SelPosted[1], SelPosted[Len(SelPosted)]}}
          ELSE {})

\* lines 141-160, one field
Fallback(field, cur, els) ==
    IF field = "posted_at" THEN FallbackPosted(cur, els) ELSE FallbackText(cur, els)

InitExtract ==
    /\ frame = <<>>
    /\ session = <<>>
    /\ log = <<>>
    /\ lc = NoCall
    /\ helper = NoCall
    /\ xj \in {[pc |-> "get", url |-> u, f |-> NoFields, n |-> 0, si |-> 0,
                fi |-> 0, ret |-> None, p1 |-> NoFields, present |-> {},
                consulted |-> {}, blk |-> "none"] : u \in {J7Frag}}

\* lines 90-96: navigation and readiness wait; then the script blocks found
XGet ==
    /\ xj.pc = "get"
    /\ \/ xj' = [xj EXCEPT !.pc = "returned"]
       \/ xj' = [xj EXCEPT !.pc = "raised"]
       \/ \E n \in 0..MaxScripts : xj' = [xj EXCEPT !.pc = "scripts", !.n = n, !.si = 1]
    /\ UNCHANGED <<frame, session, log, lc, helper>>

\* lines 97-138: one iteration of the scan, or its end
XScript ==
    /\ xj.pc = "scripts"
    /\ IF xj.si <= xj.n
       THEN \E block \in Blocks :
               xj' = [xj EXCEPT !.f = Phase1Block(xj.f, block), !.si = @ + 1,
                                !.blk = Phase1BlockOutcome(block)]
       ELSE xj' = [xj EXCEPT !.pc = "fallback", !.fi = 1, !.p1 = xj.f,
                             !.blk = "none"]
    /\ UNCHANGED <<frame, session, log, lc, helper>>

\* lines 141-160: the fallback of one field on a page holding doc; the
\* lookup is made only when the field is still falsy, and may raise
XFallback ==
    /\ xj.pc = "fallback"
    /\ xj.fi <= Len(FieldOrder)
    /\ LET field == FieldOrder[xj.fi]
       IN  \E doc \in SeqsUpTo(ElementsFor(field), MaxDoc) :
             LET els == FindElements(doc, SelOf(field))
                 pres == IF els # <<>> THEN xj.present \cup {field} ELSE xj.present
             IN  \/ xj' = [xj EXCEPT
                        !.f[field] = Fallback(field, xj.f[field], els),
                        !.fi = @ + 1,
                        !.present = pres,
                        !.consulted = IF Truthy(xj.f[field]) THEN @
                                      ELSE @ \cup {field}]
                 \/ /\ ~Truthy(xj.f[field])
                    /\ xj' = [xj EXCEPT !.pc = "raised",
                                        !.consulted = @ \cup {field}]
    /\ UNCHANGED <<frame, session, log, lc, helper>>

\* lines 162-169
XReturn ==
    /\ xj.pc = "fallback"
    /\ xj.fi > Len(FieldOrder)
    /\ xj' = [xj EXCEPT !.pc = "returned", !.ret = JobRecord(xj.f, xj.url)]
    /\ UNCHANGED <<frame, session, log, lc, helper>>

NextExtract == XGet \/ XScript \/ XFallback \/ XReturn

SpecExtract == InitExtract /\ [][NextExtract]_vars

(* ------------------ one heuristic lookup on its own -------------------- *)
InitLookup ==
    /\ frame = <<>>
    /\ session = <<>>
    /\ log = <<>>
    /\ lc = NoCall
    /\ xj = NoCall
    /\ \E field \in Range(FieldOrder) :
          \E doc \in SeqsUpTo(ElementsFor(field), MaxDoc) :
             helper = [pc |-> "call", field |-> field, doc |-> doc, val |-> None]

\* lines 141-160, the lookup of one unset field on a page holding doc
Lookup ==
    /\ helper.pc = "call"
    /\ helper' = [helper EXCEPT
                     !.pc = "done",
                     !.val = Fallback(helper.field, None,
                                      FindElements(helper.doc, SelOf(helper.field)))]
    /\ UNCHANGED <<frame, session, log, lc, xj>>

NextLookup == Lookup

SpecLookup == InitLookup /\ [][NextLookup]_vars

(* ---------------------------- properties ------------------------------ *)
Terminated(c) == frame[c].pc \in {"done", "raised"}

\* C1: with max_jobs = M >= 1 the jobs list, and the result, never hold
\* more than M records, and once M records are accumulated no further
\* _extract_job call and no further listing navigation is issued.
C1_MaxJobsStops ==
    [][\A c \in DOMAIN frame :
          frame[c].max_jobs >= 1 =>
             /\ Len(frame'[c].jobs) <= frame[c].max_jobs
             /\ frame'[c].result # None =>
                   Len(frame'[c].result.jobs) <= frame[c].max_jobs
             /\ Len(frame[c].jobs) >= frame[c].max_jobs =>
                   /\ log'[c].extractCalls = log[c].extractCalls
                   /\ log'[c].listingNavs = log[c].listingNavs]_vars

\* a crawl that returned M records while a collected link and a listing
\* page were still unvisited
C1_Witness ==
    \E c \in DOMAIN frame :
        /\ frame[c].pc = "done"
        /\ frame[c].max_jobs >= 1
        /\ frame[c].result.count = frame[c].max_jobs
        /\ frame[c].idx <= Len(frame[c].links)
        /\ frame[c].page < frame[c].page_limit

\* C2: every session launched for a crawl has been released (driver.quit)
\* exactly once when the crawl has ended, on whatever path, and is never
\* released more than once.
C2_ReleasedExactlyOnce ==
    \A c \in DOMAIN frame : \A s \in 1..Len(session) :
        session[s].owner = c =>
            /\ session[s].quits <= 1
            /\ Terminated(c) => session[s].quits = 1

\* C3: no two records of a crawl's jobs have the same link.
C3_NoDuplicateLinks ==
    \A c \in DOMAIN frame : \A i, j \in 1..Len(frame[c].jobs) :
        i # j => frame[c].jobs[i].link # frame[c].jobs[j].link

\* C4: an _extract_job call that times out appends no record, raises
\* nothing and leaves the loop at the next link of the same page.
C4_TimeoutIsolated ==
    [][\A c \in DOMAIN frame :
          (log'[c].extractCalls = log[c].extractCalls + 1
           /\ log'[c].lastOutcome = "Timeout") =>
             /\ frame'[c].jobs = frame[c].jobs
             /\ frame'[c].exc = NoExc
             /\ frame'[c].pc = "for"
             /\ frame'[c].links = frame[c].links
             /\ frame'[c].idx = frame[c].idx + 1]_vars

\* a crawl that returned a result although its last extraction timed out
\* and that extracted fewer records than it made calls
C4_Witness ==
    \E c \in DOMAIN frame :
        /\ frame[c].pc = "done"
        /\ log[c].lastOutcome = "Timeout"
        /\ Len(frame[c].jobs) >= 1
        /\ log[c].extractCalls > Len(frame[c].jobs)

\* C5: the listing navigations of a crawl are those of pages 1, 2, ... in
\* this order, each once, and at most page_limit of them.
C5_ListingNavsBounded ==
    \A c \in DOMAIN frame :
        /\ Len(log[c].listingNavs) <= frame[c].page_limit
        /\ \A i \in 1..Len(log[c].listingNavs) :
              log[c].listingNavs[i] = SearchUrl(frame[c].field, frame[c].region, i)

\* a finished crawl that navigated to page_limit >= 2 listing pages with
\* detail pages visited in between
C5_Witness ==
    \E c \in DOMAIN frame :
        /\ frame[c].pc = "done"
        /\ frame[c].page_limit >= 2
        /\ Len(log[c].listingNavs) = frame[c].page_limit
        /\ log[c].extractCalls >= 2

\* C6: no crawl fails because of an exception, other than a timeout,
\* raised while one detail link is processed.
C6_DetailFaultAbsorbed ==
    \A c \in DOMAIN frame :
        ~(frame[c].pc = "raised" /\ frame[c].exc.at = "detail"
          /\ frame[c].exc.kind # "Timeout")

\* C7: no crawl fails because of a timeout on a listing page after the
\* first.
C7_LaterPageTimeoutSoft ==
    \A c \in DOMAIN frame :
        ~(frame[c].pc = "raised" /\ frame[c].exc.at = "page_nav"
          /\ frame[c].exc.kind = "Timeout")

\* the href up to its fragment
RECURSIVE WithoutFragment(_)
WithoutFragment(h) ==
    IF h = <<>> \/ Head(h) = "#" THEN <<>>
    ELSE <<Head(h)>> \o WithoutFragment(Tail(h))

\* C8: the link collector returns one entry per canonical detail URL: no
\* two returned links are the same URL up to the fragment.
C8_OneEntryPerCanonicalUrl ==
    lc.pc = "returned" =>
        \A i, j \in 1..Len(lc.links) :
            i # j => WithoutFragment(lc.links[i].v) # WithoutFragment(lc.links[j].v)

\* the key of the returned record that holds a local of _extract_job
KeyOf(field) == IF field = "org" THEN "company" ELSE field

\* C9: every field that the structured-data phase left non-empty is
\* returned as it is, and no heuristic lookup is made for it.
C9_StructuredPrecedence ==
    (xj.pc = "returned" /\ xj.ret # None) =>
        \A i \in 1..Len(FieldOrder) :
            Truthy(xj.p1[FieldOrder[i]]) =>
                /\ xj.ret[KeyOf(FieldOrder[i])] = xj.p1[FieldOrder[i]]
                /\ FieldOrder[i] \notin xj.consulted

\* a returned record whose title came from structured data although the
\* page also held an element matching the title selectors
C9_Witness ==
    /\ xj.pc = "returned"
    /\ xj.ret # None
    /\ xj.p1.title = TextC
    /\ xj.ret.title = TextC
    /\ "title" \in xj.present
    /\ "org" \in xj.consulted

\* C10: for a page without structured-data blocks each field of the
\* returned record is non-null exactly when an element matched that
\* field's own selectors.
C10_FallbackIndependent ==
    (xj.pc = "returned" /\ xj.ret # None /\ xj.n = 0) =>
        \A i \in 1..Len(FieldOrder) :
            (xj.ret[KeyOf(FieldOrder[i])] # None) <=> (FieldOrder[i] \in xj.present)

\* matches for title and company only
C10_Witness ==
    /\ xj.pc = "returned"
    /\ xj.n = 0
    /\ xj.present = {"title", "org"}
    /\ xj.ret # None
    /\ xj.ret.title # None /\ xj.ret.company # None
    /\ xj.ret.location = None /\ xj.ret.description = None
    /\ xj.ret.posted_at = None

\* C11: the jobs of a crawl are in discovery order: the i-th record is the
\* one of the i-th successful extraction, and successive records come from
\* a later page or from a later link of the same page.
C11_DiscoveryOrder ==
    \A c \in DOMAIN frame :
        /\ Len(frame[c].jobs) = Len(log[c].extracted)
        /\ \A i \in 1..Len(frame[c].jobs) :
              frame[c].jobs[i].link = log[c].extracted[i].link
        /\ \A i, j \in 1..Len(log[c].extracted) :
              i < j =>
                 \/ log[c].extracted[i].page < log[c].extracted[j].page
                 \/ /\ log[c].extracted[i].page = log[c].extracted[j].page
                    /\ log[c].extracted[i].idx < log[c].extracted[j].idx
        /\ frame[c].result # None => frame[c].result.jobs = frame[c].jobs

\* a result with a record of page 1, second link (the first was skipped),
\* before a record of page 2
C11_Witness ==
    \E c \in DOMAIN frame :
        /\ frame[c].pc = "done"
        /\ Len(frame[c].result.jobs) = 2
        /\ log[c].extracted[1].page = 1 /\ log[c].extracted[1].idx = 2
        /\ log[c].extracted[2].page = 2
        /\ frame[c].result.jobs[1].link # frame[c].result.jobs[2].link

\* C13: a returned result has count = length(jobs), and every record's
\* link is a str and the very URL its _extract_job call was given.
C13_CountAndLinks ==
    \A c \in DOMAIN frame :
        frame[c].result # None =>
            /\ frame[c].result.count = Len(frame[c].result.jobs)
            /\ Len(frame[c].result.jobs) = Len(log[c].extracted)
            /\ \A i \in 1..Len(frame[c].result.jobs) :
                  /\ frame[c].result.jobs[i].link # None
                  /\ frame[c].result.jobs[i].link = log[c].extracted[i].link

\* a returned result of two records
C13_Witness ==
    \E c \in DOMAIN frame :
        /\ frame[c].pc = "done"
        /\ frame[c].result.count = 2
        /\ Len(log[c].extracted) = 2

\* C12: invocations are isolated: every session is used (navigated, read,
\* released) by the invocation that launched it and by no other, no two
\* invocations hold the same session, and the jobs of an invocation are
\* the records of its own extractions.
C12_Isolation ==
    /\ \A h \in 1..Len(session) :
          /\ session[h].users \subseteq {session[h].owner}
          /\ session[h].quits <= 1
    /\ \A c \in DOMAIN frame :
          frame[c].driver # 0 => session[frame[c].driver].owner = c
    /\ \A c, d \in DOMAIN frame :
          (c # d /\ frame[c].driver # 0) => frame[c].driver # frame[d].driver
    /\ \A c \in DOMAIN frame :
          /\ Len(frame[c].jobs) = Len(log[c].extracted)
          /\ \A i \in 1..Len(frame[c].jobs) :
                frame[c].jobs[i].link = log[c].extracted[i].link

\* two invocations under way at once, each with a session of its own in
\* use and a record extracted
C12_Witness ==
    /\ DOMAIN frame = {1, 2}
    /\ Len(session) = 2
    /\ \A h \in 1..2 : session[h].state = "open" /\ session[h].users # {}
    /\ \A c \in {1, 2} :
          frame[c].pc \in {"for", "after_for"} /\ Len(frame[c].jobs) = 1

\* the strategies before position i met no successful click
NoneClickedBefore(outcome, i) ==
    \A k \in 1..(i - 1) : outcome[ConsentStrategies[k]] # "clicked"

\* C18: the consent handler never raises; it clicks at most one button,
\* namely that of the first strategy, in the order OneTrust id then texts
\* as listed, whose click succeeds, and none when no strategy succeeds.
C18_ConsentNeverRaises ==
    helper.pc = "returned" =>
        /\ ~helper.raised
        /\ Len(helper.clicks) <= 1
        /\ \A i \in 1..Len(ConsentStrategies) :
              (helper.outcome[ConsentStrategies[i]] = "clicked"
               /\ NoneClickedBefore(helper.outcome, i))
                 => helper.clicks = <<ConsentStrategies[i]>>
        /\ (\A i \in 1..Len(ConsentStrategies) :
               helper.outcome[ConsentStrategies[i]] # "clicked")
              => helper.clicks = <<>>

\* a call that met no OneTrust button, a failing click on "Akzeptieren",
\* and clicked "Zustimmen" although "Accept" was clickable too
C18_Witness ==
    /\ helper.pc = "returned"
    /\ helper.outcome[OneTrustId] = "absent"
    /\ helper.outcome["Akzeptieren"] = "click_fails"
    /\ helper.outcome["Zustimmen"] = "clicked"
    /\ helper.outcome["Accept"] = "clicked"
    /\ helper.clicks = <<"Zustimmen">>
    /\ ~helper.raised

\* s is an initial part of t
IsPrefix(s, t) == Len(s) <= Len(t) /\ SubSeq(t, 1, Len(s)) = s

\* C17: the consent handler runs at most once in a crawl and exactly once
\* before the first link collection; it runs after the first listing
\* navigation and after the readiness wait, and never for a later page or a
\* detail page.
C17_ConsentOnceAfterWait ==
    \A c \in DOMAIN frame :
        /\ log[c].consentRuns <= 1
        /\ IsPrefix(log[c].order, <<"nav", "wait", "consent", "collect">>)
        /\ frame[c].pc \in {"while", "page_nav", "collect", "for", "after_for",
                            "return"} => log[c].consentRuns = 1

\* C14: _visible_text is idempotent: normalizing a normalized text gives
\* the same text.
C14_VisibleTextIdempotent ==
    helper.pc = "twice" => helper.twice = helper.once

\* a text with leading whitespace and an inner run of three whitespace
\* characters, normalized twice
C14_Witness ==
    /\ helper.pc = "twice"
    /\ helper.s = Str(<<"\n", "a", " ", "\n", " ">>)
    /\ helper.once = Str(<<"a">>)
    /\ helper.twice = Str(<<"a">>)

\* C15: first match wins in Phase 1: once a block has yielded a JobPosting
\* whose fields were populated, a later block overwrites no field that is
\* already set.
C15_FirstMatchWins ==
    [][(xj.pc = "scripts" /\ xj'.pc = "scripts" /\ xj.blk = "posting") =>
          \A field \in Range(FieldOrder) :
             Truthy(xj.f[field]) => xj'.f[field] = xj.f[field]]_vars

\* C19: a block whose processing raises contributes no field value: the
\* locals after the block are the locals before it.
C19_FailingBlockSkipped ==
    [][(xj.pc = "scripts" /\ xj'.pc = "scripts" /\ xj'.blk = "raised") =>
          xj'.f = xj.f]_vars

\* the earliest selector of the list that some element of doc matches
EarliestMatched(doc, sels) ==
    sels[CHOOSE i \in 1..Len(sels) :
            /\ \E k \in 1..Len(doc) : doc[k].sel = sels[i]
            /\ \A m \in 1..(i - 1) : \A k \in 1..Len(doc) : doc[k].sel # sels[m]]

\* C16: when elements of the page match the selector list of an unset
\* field, the value taken is that of an element matching the earliest
\* selector of the list that has any match, whatever the document order.
C16_SelectorPriority ==
    (helper.pc = "done" /\ FindElements(helper.doc, SelOf(helper.field)) # <<>>) =>
        \E k \in 1..Len(helper.doc) :
            /\ helper.doc[k].sel = EarliestMatched(helper.doc, SelOf(helper.field))
            /\ helper.val = Fallback(helper.field, None, <<helper.doc[k]>>)

\* every crawl comes to its end: scrape_karriere returns or raises
EventuallyTerminated == <>Terminated(1)

\* C20: a crawl that has ended, by a return or by an error, has navigated
\* to at most page_limit listing pages, and the session it launched has
\* been released.
C20_EndsBoundedAndReleased ==
    \A c \in DOMAIN frame :
        Terminated(c) =>
            /\ Len(log[c].listingNavs) <= frame[c].page_limit
            /\ \A s \in 1..Len(session) :
                  session[s].owner = c => session[s].quits >= 1

============================================================================
